---- MODULE Spec2Model ----
(***************************************************************************)
(* Model of the fetch-normalize pipeline of similarweb-scraper:            *)
(*   extractors/traffic_utils.py      normalize_domain,                    *)
(*                                    _build_estimated_visits              *)
(*   extractors/similarweb_parser.py  SimilarwebParser                     *)
(*   main.py                          main (multi-domain loop)             *)
(* Strings that the code takes apart are sequences of one-character        *)
(* strings; numbers of a JSON payload are fixed-point hundredths.          *)
(***************************************************************************)
EXTENDS Integers, Sequences, FiniteSets, TLC

VARIABLES
    \* normalize_domain
    nd_domain,      \* the argument `domain`
    nd_calls,       \* results of successive applications
    \* _build_estimated_visits
    today,          \* datetime.now(timezone.utc), as a date
    base,           \* the argument `base`
    months,         \* the list `months`
    visits,         \* the dict `visits`
    \* _normalize_real_response
    raw,            \* the argument `raw`
    normalized,     \* its outcome: the dict `normalized`, or the exception raised
    \* SimilarwebParser configuration and process environment
    use_mock_data,  \* self.use_mock_data
    environ,        \* os.environ.get(self.api_key_env)
    max_retries,    \* self.max_retries
    backoff_factor, \* self.backoff_factor, in tenths of a second
    \* main
    domains,        \* the list returned by load_domains_from_csv
    idx,            \* enumerate index of the domain processed next
    results,        \* the list `results`
    pc,             \* control position
    \* the get_domain_data call in progress or last completed
    call_domain,    \* its argument `domain`
    clean_domain,   \* its local `clean_domain`
    attempt,        \* _fetch_raw_data: loop variable `attempt`
    last_exc,       \* _fetch_raw_data: local `last_exc`
    fetch_ret,      \* outcome of _fetch_raw_data
    ret,            \* outcome of get_domain_data
    \* observations of the call (history)
    http_requests,  \* number of requests.get calls
    sleeps,         \* delays handed to time.sleep, in order
    outcomes,       \* what each requests.get produced, in order
    env_reads,      \* number of os.environ.get calls
    mock_profiles,  \* number of generate_mock_profile calls
    \* observation of main (history)
    processed       \* per domain processed: the domain and the call's outcome

nd_vars == <<nd_domain, nd_calls>>

ev_vars == <<today, base, months, visits>>

nr_vars == <<raw, normalized>>

cfg_vars == <<use_mock_data, environ, max_retries, backoff_factor>>

main_vars == <<domains, idx, results, processed>>

call_vars ==
    <<call_domain, clean_domain, attempt, last_exc, fetch_ret, ret,
      http_requests, sleeps, outcomes, env_reads, mock_profiles>>

vars == <<nd_vars, ev_vars, nr_vars, cfg_vars, main_vars, pc, call_vars>>

----------------------------------------------------------------------------
(* Bounds *)

MaxLen == 4         \* longest raw string handed to normalize_domain
FirstYear == 2023   \* earliest year of the current date
LastYear == 2024    \* latest year of the current date
MaxRetries == 3     \* largest configured max_retries
MaxDomains == 2     \* longest list of input domains
MaxApiLen == 3      \* longest argument of a direct get_domain_data call

----------------------------------------------------------------------------
(* Strings *)

Chars == {"a", "B", " ", "/", "?", ":"}

Whitespace == {" "}

RECURSIVE StringsUpTo(_)
StringsUpTo(n) ==
    IF n = 0 THEN {<<>>}
    ELSE LET shorter == StringsUpTo(n - 1)
         IN  shorter \cup {Append(s, c) : s \in {t \in shorter : Len(t) = n - 1}, c \in Chars}

\* str.lower()
LowerChar(c) == IF c = "B" THEN "b" ELSE c

lower(s) == [i \in 1..Len(s) |-> LowerChar(s[i])]

\* str.strip(): drop leading and trailing whitespace
strip(s) ==
    LET keep == {i \in 1..Len(s) : s[i] \notin Whitespace}
    IN  IF keep = {} THEN <<>>
        ELSE LET lo == CHOOSE i \in keep : \A j \in keep : i <= j
                 hi == CHOOSE i \in keep : \A j \in keep : j <= i
             IN  SubSeq(s, lo, hi)

\* positions at which `sep` occurs in s
Occurrences(s, sep) ==
    {i \in 1..(Len(s) - Len(sep) + 1) : SubSeq(s, i, i + Len(sep) - 1) = sep}

\* `sep in s`
Contains(s, sep) == Occurrences(s, sep) # {}

FirstOccurrence(s, sep) ==
    CHOOSE i \in Occurrences(s, sep) : \A j \in Occurrences(s, sep) : i <= j

\* s.split(sep, 1)[0]
SplitHead(s, sep) ==
    IF Contains(s, sep) THEN SubSeq(s, 1, FirstOccurrence(s, sep) - 1) ELSE s

\* s.split(sep, 1)[1], used only when sep occurs in s
SplitTail(s, sep) ==
    SubSeq(s, FirstOccurrence(s, sep) + Len(sep), Len(s))

SchemeSep == <<":", "/", "/">>

\* d = domain.strip().lower(), the first statement of normalize_domain
StripLower(domain) == lower(strip(domain))

normalize_domain(domain) ==
    IF domain = <<>> THEN <<>>
    ELSE LET d0 == StripLower(domain)
             d1 == IF Contains(d0, SchemeSep) THEN SplitTail(d0, SchemeSep) ELSE d0
             d2 == SplitHead(d1, <<"/">>)
             d3 == SplitHead(d2, <<"?">>)
         IN  d3

----------------------------------------------------------------------------
(* Values of the variables a specification does not use                    *)

NoCall ==
    /\ call_domain = <<>>
    /\ clean_domain = <<>>
    /\ attempt = 0
    /\ last_exc = "None"
    /\ fetch_ret = [kind |-> "none"]
    /\ ret = [kind |-> "none"]
    /\ http_requests = 0
    /\ sleeps = <<>>
    /\ outcomes = <<>>
    /\ env_reads = 0
    /\ mock_profiles = 0

NoDomain ==
    /\ nd_domain = <<>>
    /\ nd_calls = <<>>

NoVisits ==
    /\ today = [year |-> FirstYear, month |-> 1, day |-> 1]
    /\ base = 0
    /\ months = <<>>
    /\ visits = <<>>

NoPayload ==
    /\ raw = [t |-> "none"]
    /\ normalized = [err |-> "not run"]

NoRun ==
    /\ use_mock_data = TRUE
    /\ environ = "<unset>"
    /\ max_retries = 0
    /\ backoff_factor = 0
    /\ domains = <<>>
    /\ idx = 1
    /\ results = <<>>
    /\ processed = <<>>
    /\ pc = "none"
    /\ NoCall

----------------------------------------------------------------------------
(* Calendar arithmetic of datetime / timedelta                             *)

IsLeap(y) == (y % 4 = 0 /\ y % 100 # 0) \/ y % 400 = 0

DaysInMonth(y, m) ==
    IF m = 2 THEN (IF IsLeap(y) THEN 29 ELSE 28)
    ELSE IF m \in {4, 6, 9, 11} THEN 30 ELSE 31

DaysInYear(y) == IF IsLeap(y) THEN 366 ELSE 365

\* the walk back of 60 days from FirstYear-01-01 stays within the year before
CalendarYears == (FirstYear - 1)..LastYear

RECURSIVE DaysBeforeYear(_)
DaysBeforeYear(y) ==
    IF y <= FirstYear - 1 THEN 0 ELSE DaysBeforeYear(y - 1) + DaysInYear(y - 1)

RECURSIVE DaysBeforeMonth(_, _)
DaysBeforeMonth(y, m) ==
    IF m = 1 THEN 0 ELSE DaysBeforeMonth(y, m - 1) + DaysInMonth(y, m - 1)

\* date.toordinal(), counted from the first day of CalendarYears
ToOrdinal(d) == DaysBeforeYear(d.year) + DaysBeforeMonth(d.year, d.month) + d.day

Dates ==
    {[year |-> y, month |-> m, day |-> d] :
        y \in CalendarYears, m \in 1..12, d \in 1..31}

\* date.fromordinal()
FromOrdinal(n) ==
    CHOOSE d \in Dates : d.day <= DaysInMonth(d.year, d.month) /\ ToOrdinal(d) = n

\* dt - timedelta(days=n)
MinusDays(d, n) == FromOrdinal(ToOrdinal(d) - n)

\* dt.replace(day=1)
ReplaceDay1(d) == [d EXCEPT !.day = 1]

DigitChar(n) == <<"0", "1", "2", "3", "4", "5", "6", "7", "8", "9">>[n + 1]

\* month_date.strftime("%Y-%m-01")
KeyOf(d) ==
    << DigitChar(d.year \div 1000), DigitChar((d.year \div 100) % 10),
       DigitChar((d.year \div 10) % 10), DigitChar(d.year % 10), "-",
       DigitChar(d.month \div 10), DigitChar(d.month % 10), "-", "0", "1" >>

\* month_date of loop index i
MonthDate(t, i) == ReplaceDay1(MinusDays(ReplaceDay1(t), 30 * i))

\* the list `months` after the loop over i = 2, 1, 0
BuildMonths(t) == <<KeyOf(MonthDate(t, 2)), KeyOf(MonthDate(t, 1)), KeyOf(MonthDate(t, 0))>>

Max(a, b) == IF a >= b THEN a ELSE b

\* the update of `current` between two iterations: a decay of one tenth
Decay(current) == (current * 9) \div 10

\* dict after `visits[key] = value`
DictSet(dict, key, value) ==
    [k \in DOMAIN dict \cup {key} |-> IF k = key THEN value ELSE dict[k]]

EmptyDict == [k \in {} |-> 0]

\* the dict `visits` after the loop over months[::-1]
BuildVisits(ms, b) ==
    LET v1 == DictSet(EmptyDict, ms[3], Max(1000, b))
        v2 == DictSet(v1, ms[2], Max(1000, Decay(b)))
        v3 == DictSet(v2, ms[1], Max(1000, Decay(Decay(b))))
    IN  v3

----------------------------------------------------------------------------
(* JSON values as Python holds them after resp.json(), and the Python      *)
(* operations _normalize_real_response applies to them.                    *)

JNull == [t |-> "null"]

JNum(c) == [t |-> "num", n |-> c]

JStr(s) == [t |-> "str", s |-> s]

JBool(b) == [t |-> "bool", b |-> b]

JList(items) == [t |-> "list", items |-> items]

JMap(m) == [t |-> "map", m |-> m]

EmptyMap == [k \in {} |-> JNull]

\* the JSON object {}
EmptyPayload == JMap(EmptyMap)

\* isinstance(v, dict)
IsDict(v) == v.t = "map"

\* isinstance(v, (int, float)); bool is a subclass of int
IsNumber(v) == v.t \in {"num", "bool"}

\* bool(v)
Truthy(v) ==
    CASE v.t = "null" -> FALSE
      [] v.t = "num"  -> v.n # 0
      [] v.t = "str"  -> v.s # ""
      [] v.t = "bool" -> v.b
      [] v.t = "list" -> v.items # <<>>
      [] v.t = "map"  -> DOMAIN v.m # {}

\* a or b
Or(a, b) == IF Truthy(a) THEN a ELSE b

\* d.get(key), d.get(key, default) on a dict d
DictGet(d, key) == IF key \in DOMAIN d.m THEN d.m[key] ELSE JNull

DictGetDefault(d, key, default) == IF key \in DOMAIN d.m THEN d.m[key] ELSE default

\* the outcome of an expression: a value, or the exception it raises
Value(v) == [err |-> "", v |-> v]

Raise(e) == [err |-> e, v |-> JNull]

\* x.get(key) on an arbitrary x: only a dict has .get
GetAttr(x, key) == IF IsDict(x) THEN Value(DictGet(x, key)) ELSE Raise("AttributeError")

\* strings that float() and int() accept
FloatStrings == {"5", "1.5"}

IntStrings == {"5"}

StringAsHundredths(s) == IF s = "5" THEN 500 ELSE IF s = "1.5" THEN 150 ELSE 0

\* float(v), in hundredths
FloatOf(v) ==
    CASE v.t = "num"  -> Value(v.n)
      [] v.t = "bool" -> Value(IF v.b THEN 100 ELSE 0)
      [] v.t = "str"  -> IF v.s \in FloatStrings THEN Value(StringAsHundredths(v.s))
                         ELSE Raise("ValueError")
      [] OTHER        -> Raise("TypeError")

\* int(v): truncation of a number, parse of a string
IntOf(v) ==
    CASE v.t = "num"  -> Value(v.n \div 100)
      [] v.t = "bool" -> Value(IF v.b THEN 1 ELSE 0)
      [] v.t = "str"  -> IF v.s \in IntStrings THEN Value(StringAsHundredths(v.s) \div 100)
                         ELSE Raise("ValueError")
      [] OTHER        -> Raise("TypeError")

\* str.title() on the channel names that occur
Title(key) ==
    CASE key = "search" -> "Search"
      [] key = "not_a_number" -> "Not_A_Number"
      [] key = "direct" -> "Direct"
      [] OTHER -> key

\* the elements a `for x in v` loop visits, or the exception it raises:
\* a list yields its items, a dict its keys, a str its characters
Iterate(v) ==
    CASE v.t = "list" -> Value(v.items)
      [] v.t = "map"  -> Value([i \in 1..Cardinality(DOMAIN v.m) |-> JStr("key")])
      [] v.t = "str"  -> Value(IF v.s = "" THEN <<>> ELSE <<JStr("char")>>)
      [] OTHER        -> Raise("TypeError")

\* the nested function g(path, default) of _normalize_real_response
RECURSIVE Walk(_, _, _)
Walk(cur, parts, i) ==
    IF i > Len(parts) THEN Value(cur)
    ELSE IF ~IsDict(cur) THEN Raise("default")
    ELSE Walk(DictGet(cur, parts[i]), parts, i + 1)

g(payload, parts, default) ==
    LET w == Walk(payload, parts, 1)
    IN  IF w.err # "" THEN default
        ELSE IF w.v.t # "null" THEN w.v ELSE default

----------------------------------------------------------------------------
(* SimilarwebParser._normalize_real_response                               *)

\* {str(k): int(v) for k, v in estimated_visits.items() if isinstance(v, (int, float))}
NormalizedVisits(estimated_visits) ==
    IF ~IsDict(estimated_visits) THEN Raise("AttributeError")
    ELSE LET m == estimated_visits.m
             keep == {k \in DOMAIN m : IsNumber(m[k])}
         IN  Value(JMap([k \in keep |-> JNum(IntOf(m[k]).v * 100)]))

\* the loop `for c in top_countries`
RECURSIVE CountriesLoop(_, _, _)
CountriesLoop(items, i, acc) ==
    IF i > Len(items) THEN Value(JList(acc))
    ELSE LET c == items[i]
         IN  IF ~IsDict(c) THEN Raise("AttributeError")
             ELSE LET code == DictGet(c, "country_code")
                      value == DictGet(c, "share")
                  IN  IF Truthy(code) /\ IsNumber(value)
                      THEN CountriesLoop(items, i + 1,
                               Append(acc, JMap([CountryCode |-> code,
                                                 Value |-> JNum(FloatOf(value).v)])))
                      ELSE CountriesLoop(items, i + 1, acc)

NormCountries(top_countries) ==
    LET it == Iterate(top_countries)
    IN  IF it.err # "" THEN Raise(it.err) ELSE CountriesLoop(it.v, 1, <<>>)

\* the loop `for key, val in traffic_sources.items()`
NormSources(traffic_sources) ==
    IF ~IsDict(traffic_sources) THEN Raise("AttributeError")
    ELSE LET m == traffic_sources.m
             keep == {k \in DOMAIN m : IsNumber(m[k])}
         IN  Value(JMap([t \in {Title(k) : k \in keep} |->
                 LET k == CHOOSE k \in keep : Title(k) = t
                 IN  JNum(FloatOf(m[k]).v)]))

\* the loop `for kw in top_keywords_raw`
RECURSIVE KeywordsLoop(_, _, _)
KeywordsLoop(items, i, acc) ==
    IF i > Len(items) THEN Value(JList(acc))
    ELSE LET kw == items[i]
         IN  IF ~IsDict(kw) THEN Raise("AttributeError")
             ELSE LET name == Or(DictGet(kw, "keyword"), DictGet(kw, "name"))
                      value == Or(DictGet(kw, "visits"), DictGet(kw, "value"))
                      cpc == Or(DictGet(kw, "cpc"), JNum(0))
                  IN  IF Truthy(name) /\ IsNumber(value)
                      THEN IF FloatOf(cpc).err # "" THEN Raise(FloatOf(cpc).err)
                           ELSE KeywordsLoop(items, i + 1,
                                    Append(acc, JMap([name |-> name,
                                                      value |-> JNum(IntOf(value).v * 100),
                                                      cpc |-> JNum(FloatOf(cpc).v)])))
                      ELSE KeywordsLoop(items, i + 1, acc)

NormKeywords(top_keywords_raw) ==
    LET it == Iterate(top_keywords_raw)
    IN  IF it.err # "" THEN Raise(it.err) ELSE KeywordsLoop(it.v, 1, <<>>)

\* the dict `country_rank`
CountryRank(country_rank_raw) ==
    IF ~IsDict(country_rank_raw) THEN Raise("AttributeError")
    ELSE Value(JMap([Country |-> DictGetDefault(country_rank_raw, "name", JStr("")),
                     CountryCode |-> DictGetDefault(country_rank_raw, "code", JStr("")),
                     Rank |-> DictGetDefault(country_rank_raw, "rank", JNum(0))]))

\* overview.get(key) or g(path) or ""
OverviewOr(overview, key, payload, path) ==
    LET o == GetAttr(overview, key)
    IN  IF o.err # "" THEN o
        ELSE Value(Or(Or(o.v, g(payload, path, JNull)), JStr("")))

\* f"{float(x):.4f}", f"{float(x):.2f}": the number rendered with `places` decimals
Fixed(x, places) ==
    IF FloatOf(x).err # "" THEN Raise(FloatOf(x).err)
    ELSE Value([t |-> "str", s |-> "fixed", places |-> places, hundredths |-> FloatOf(x).v])

\* str(int(x))
IntString(x) ==
    IF IntOf(x).err # "" THEN Raise(IntOf(x).err)
    ELSE Value([t |-> "str", s |-> "int", units |-> IntOf(x).v])

\* the exception of the first outcome, in evaluation order, that raises
RECURSIVE FirstError(_, _)
FirstError(steps, i) ==
    IF i > Len(steps) THEN ""
    ELSE IF steps[i].err # "" THEN steps[i].err
    ELSE FirstError(steps, i + 1)

normalize_real_response(domain, payload) ==
    IF ~IsDict(payload) THEN Raise("AttributeError")
    ELSE
    LET overview == DictGetDefault(payload, "overview", JMap(EmptyMap))
        normalized_visits ==
            NormalizedVisits(Or(g(payload, <<"traffic", "estimated_monthly_visits">>, JMap(EmptyMap)),
                                JMap(EmptyMap)))
        norm_countries ==
            NormCountries(Or(g(payload, <<"audience", "top_countries">>, JList(<<>>)), JList(<<>>)))
        norm_sources ==
            NormSources(Or(g(payload, <<"traffic", "sources">>, JMap(EmptyMap)), JMap(EmptyMap)))
        norm_keywords ==
            NormKeywords(Or(g(payload, <<"traffic", "top_keywords">>, JList(<<>>)), JList(<<>>)))
        country_rank ==
            CountryRank(Or(g(payload, <<"ranking", "country">>, JNull), JMap(EmptyMap)))
        title == OverviewOr(overview, "title", payload, <<"meta", "title">>)
        description == OverviewOr(overview, "description", payload, <<"meta", "description">>)
        bounceRate == Fixed(g(payload, <<"engagement", "bounce_rate">>, JNum(0)), 4)
        pagesPerVisit == Fixed(g(payload, <<"engagement", "pages_per_visit">>, JNum(0)), 2)
        visitsField == IntString(g(payload, <<"engagement", "visits">>, JNum(0)))
        timeOnSite == Fixed(g(payload, <<"engagement", "time_on_site">>, JNum(0)), 2)
        err == FirstError(<<normalized_visits, norm_countries, norm_sources, norm_keywords,
                            country_rank, title, description, bounceRate, pagesPerVisit,
                            visitsField, timeOnSite>>, 1)
    IN  IF err # "" THEN Raise(err)
        ELSE Value(
            [domain |-> domain,
             title |-> title.v,
             description |-> description.v,
             category |-> Or(g(payload, <<"classification", "category">>, JNull), JStr("")),
             screenshot |-> Or(g(payload, <<"meta", "screenshot_url">>, JNull), JStr("")),
             globalRank |-> g(payload, <<"ranking", "global", "rank">>, JNum(0)),
             countryRank |-> country_rank.v,
             categoryRank |-> [t |-> "str", s |-> "str",
                               of |-> g(payload, <<"ranking", "category", "rank">>, JStr(""))],
             estimatedMonthlyVisits |-> normalized_visits.v,
             bounceRate |-> bounceRate.v,
             pagesPerVisit |-> pagesPerVisit.v,
             visits |-> visitsField.v,
             timeOnSite |-> timeOnSite.v,
             topCountryShares |-> norm_countries.v,
             trafficSources |-> norm_sources.v,
             topKeywords |-> norm_keywords.v,
             isDataFromGA |-> Truthy(g(payload, <<"meta", "is_from_ga">>, JBool(FALSE))),
             competitors |-> g(payload, <<"competition", "competitors">>, JList(<<>>))])

----------------------------------------------------------------------------
(* SimilarwebParser: credential lookup, mock path, _fetch_raw_data         *)

\* os.environ.get returns None for a variable that is not set
Unset == "<unset>"

EnvValues == {Unset, "", "secret"}

\* `not api_key`
KeyMissing(api_key) == api_key = Unset \/ api_key = ""

\* self._has_api_key()
has_api_key(api_key) == ~KeyMissing(api_key)

\* outcomes of a call
Pending == [kind |-> "pending"]

NotCalled == [kind |-> "none"]

Returns(v) == [kind |-> "return", value |-> v]

Raises(e) == [kind |-> "raise", exc |-> e]

\* the profile of the mock generator for a canonical domain
generate_mock_profile(domain) ==
    [domain |-> domain,
     title |-> JStr("x"), description |-> JStr("x"), category |-> JStr("x"),
     screenshot |-> JStr("x"),
     global_rank |-> JNum(500), country_rank |-> JNum(300), category_rank |-> JNum(700),
     estimated_monthly_visits |-> BuildVisits(BuildMonths(today), 250000),
     bounce_rate |-> JNum(40), pages_per_visit |-> JNum(300),
     visits |-> JNum(25000000), time_on_site |-> JNum(6000),
     top_country_shares |-> JList(<<>>), traffic_sources |-> JMap(EmptyMap),
     top_keywords |-> JList(<<>>), competitors |-> JList(<<>>)]

\* self._normalize_mock_response(raw)
normalize_mock_response(profile) ==
    [domain |-> profile.domain,
     title |-> profile.title,
     description |-> profile.description,
     category |-> profile.category,
     screenshot |-> profile.screenshot,
     globalRank |-> profile.global_rank,
     countryRank |-> profile.country_rank,
     categoryRank |-> profile.category_rank,
     estimatedMonthlyVisits |-> profile.estimated_monthly_visits,
     bounceRate |-> Fixed(profile.bounce_rate, 4).v,
     pagesPerVisit |-> Fixed(profile.pages_per_visit, 2).v,
     visits |-> IntString(profile.visits).v,
     timeOnSite |-> Fixed(profile.time_on_site, 2).v,
     topCountryShares |-> profile.top_country_shares,
     trafficSources |-> profile.traffic_sources,
     topKeywords |-> profile.top_keywords,
     isDataFromGA |-> FALSE,
     competitors |-> profile.competitors]

\* what requests.get produces: a response, or a transport-level exception
NotJson == [json |-> FALSE]

Json(v) == [json |-> TRUE, value |-> v]

Response(status, body) == [kind |-> "response", status |-> status, body |-> body]

TransportError(e) == [kind |-> "error", exc |-> e]

NullOverviewPayload == JMap([overview |-> JNull])

HttpOutcomes ==
    {Response(199, NotJson), Response(300, Json(EmptyPayload)),
     Response(200, NotJson), Response(200, Json(EmptyPayload)),
     Response(200, Json(NullOverviewPayload)), Response(299, Json(EmptyPayload)),
     TransportError("Timeout"), TransportError("ConnectionError")}

\* variant: the upper bound of the status range included
IsSuccessStatus_inclusive(status) == 200 <= status /\ status <= 300

\* 200 <= resp.status_code < 300
IsSuccessStatus(status) == 200 <= status /\ status < 300

\* the try block returns resp.json()
AttemptReturns(resp) ==
    resp.kind = "response" /\ IsSuccessStatus(resp.status) /\ resp.body.json

\* the exception the except clause catches in an attempt, "None" if none:
\* requests.get raised, or resp.json() raised on a body that is not JSON
CaughtException(resp) ==
    IF resp.kind = "error" THEN resp.exc
    ELSE IF IsSuccessStatus(resp.status) /\ ~resp.body.json THEN "JSONDecodeError"
    ELSE "None"

\* variant: last_exc overwritten by every attempt
NextLastExc_reset(prev, caught) == caught

\* last_exc after the attempt
NextLastExc(prev, caught) == IF caught # "None" THEN caught ELSE prev

\* `if attempt < self.max_retries` before _sleep_with_backoff
SleepsAfter(att, maxr) == att < maxr

\* variant: exponent not shifted to start at zero
Delay_unshifted(factor, att) == factor * 2 ^ att

\* delay = self.backoff_factor * (2 ** (attempt - 1))
Delay(factor, att) == factor * 2 ^ (att - 1)

\* variant: range(1, self.max_retries + 2)
LoopContinues_extra(att, maxr) == att + 1 < maxr + 2

\* range(1, self.max_retries + 1) has a value after att
LoopContinues(att, maxr) == att + 1 < maxr + 1

\* the statements after the loop
Exhausted(exc) == IF exc # "None" THEN Raises(exc) ELSE Raises("FetchFailedGeneric")

\* the rest of get_domain_data once _fetch_raw_data returned raw_response
AfterFetch(domain, payload) ==
    LET n == normalize_real_response(domain, payload)
    IN  IF n.err # "" THEN Raises(n.err) ELSE Returns(n.v)

\* one iteration of the retry loop of _fetch_raw_data, with what follows it
FetchStep(resp) ==
    /\ http_requests' = http_requests + 1
    /\ outcomes' = Append(outcomes, resp)
    /\ IF AttemptReturns(resp)
       THEN /\ fetch_ret' = Returns(resp.body.value)
            /\ ret' = AfterFetch(clean_domain, resp.body.value)
            /\ UNCHANGED <<attempt, last_exc, sleeps>>
       ELSE /\ last_exc' = NextLastExc(last_exc, CaughtException(resp))
            /\ sleeps' = IF SleepsAfter(attempt, max_retries)
                         THEN Append(sleeps, Delay(backoff_factor, attempt))
                         ELSE sleeps
            /\ IF LoopContinues(attempt, max_retries)
               THEN /\ attempt' = attempt + 1
                    /\ fetch_ret' = Pending
                    /\ ret' = Pending
               ELSE /\ attempt' = attempt
                    /\ fetch_ret' = Exhausted(last_exc')
                    /\ ret' = Exhausted(last_exc')
    /\ UNCHANGED <<call_domain, clean_domain, env_reads, mock_profiles>>

\* variant: `clean_domain is None`
InvalidClean_never(clean) == FALSE

\* `not clean_domain`
InvalidClean(clean) == clean = <<>>

\* variant: `self.use_mock_data` alone
UsesMock_flagOnly(mock, api_key) == mock

\* `self.use_mock_data or not self._has_api_key()`
UsesMock(mock, api_key) == mock \/ ~has_api_key(api_key)

\* _fetch_raw_data up to the first iteration of its loop
FetchEntry(api_key, maxr) ==
    IF KeyMissing(api_key) THEN Raises("ApiKeyNotFound")
    ELSE IF 1 < maxr + 1 THEN Pending
    ELSE Exhausted("None")

\* get_domain_data up to its return, its raise or its first HTTP request
GetDomainData(domain) ==
    LET clean == normalize_domain(domain)
    IN  /\ call_domain' = domain
        /\ clean_domain' = clean
        /\ http_requests' = 0
        /\ sleeps' = <<>>
        /\ outcomes' = <<>>
        /\ last_exc' = "None"
        /\ IF InvalidClean(clean)
           THEN /\ ret' = Raises("InvalidDomain")
                /\ fetch_ret' = NotCalled
                /\ env_reads' = 0
                /\ mock_profiles' = 0
                /\ attempt' = 0
           ELSE IF UsesMock(use_mock_data, environ)
           THEN /\ ret' = Returns(normalize_mock_response(generate_mock_profile(clean)))
                /\ fetch_ret' = NotCalled
                /\ env_reads' = IF use_mock_data THEN 0 ELSE 1
                /\ mock_profiles' = 1
                /\ attempt' = 0
           ELSE /\ fetch_ret' = FetchEntry(environ, max_retries)
                /\ ret' = fetch_ret'
                /\ env_reads' = IF use_mock_data THEN 1 ELSE 2
                /\ mock_profiles' = 0
                /\ attempt' = IF fetch_ret' = Pending THEN 1 ELSE 0

----------------------------------------------------------------------------
(* main: the loop over the loaded domains                                  *)

\* code points, the order sorted() uses
CharCode(c) ==
    CASE c = " " -> 32 [] c = "/" -> 47 [] c = ":" -> 58 [] c = "?" -> 63
      [] c = "B" -> 66 [] c = "a" -> 97 [] c = "b" -> 98

\* s < t on str
RECURSIVE StrLessFrom(_, _, _)
StrLessFrom(s, t, i) ==
    IF i > Len(t) THEN FALSE
    ELSE IF i > Len(s) THEN TRUE
    ELSE IF s[i] # t[i] THEN CharCode(s[i]) < CharCode(t[i])
    ELSE StrLessFrom(s, t, i + 1)

StrLess(s, t) == StrLessFrom(s, t, 1)

\* cells load_domains_from_csv keeps (stripped, not empty): a path without
\* host, an upper-case host, a host with a trailing slash
LoadedStrings == {<<"/", "a">>, <<"B">>, <<"a", "/">>}

\* sorted(set(domains)): strictly increasing lists
RECURSIVE SortedLists(_)
SortedLists(n) ==
    IF n = 0 THEN {<<>>}
    ELSE LET shorter == SortedLists(n - 1)
         IN  shorter \cup
             {Append(l, s) : l \in {k \in shorter : Len(k) = n - 1},
                             s \in LoadedStrings}

DomainLists ==
    {l \in SortedLists(MaxDomains) :
        /\ l # <<>>
        /\ \A i \in 1..(Len(l) - 1) : StrLess(l[i], l[i + 1])}

\* variant: the exception leaves the loop
LoopBody_abort(r) ==
    /\ results' = IF r.kind = "return" THEN Append(results, r.value) ELSE results
    /\ idx' = IF r.kind = "return" THEN idx + 1 ELSE Len(domains) + 1
    /\ pc' = "loop"

\* the body of the loop once get_domain_data returned or raised
LoopBody(r) ==
    /\ results' = IF r.kind = "return" THEN Append(results, r.value) ELSE results
    /\ idx' = idx + 1
    /\ pc' = "loop"

AfterCall ==
    IF ret' = Pending
    THEN /\ pc' = "fetch"
         /\ UNCHANGED <<idx, results, processed>>
    ELSE /\ LoopBody(ret')
         /\ processed' = Append(processed, [domain |-> domains[idx], outcome |-> ret'])

\* backoff_factor: float = 0.5, in tenths of a second
DefaultBackoff == 5

Configurations ==
    /\ use_mock_data \in BOOLEAN
    /\ environ \in EnvValues
    /\ max_retries \in 0..MaxRetries
    /\ backoff_factor \in {DefaultBackoff, 2 * DefaultBackoff}

Init ==
    /\ Configurations
    /\ domains \in DomainLists
    /\ idx = 1
    /\ results = <<>>
    /\ processed = <<>>
    /\ pc = "loop"
    /\ NoCall
    /\ NoDomain
    /\ NoVisits
    /\ NoPayload

ProcessDomain ==
    /\ pc = "loop"
    /\ idx <= Len(domains)
    /\ GetDomainData(domains[idx])
    /\ AfterCall
    /\ UNCHANGED <<domains, cfg_vars, nd_vars, ev_vars, nr_vars>>

FetchAttempt ==
    /\ pc = "fetch"
    /\ \E resp \in HttpOutcomes : FetchStep(resp)
    /\ AfterCall
    /\ UNCHANGED <<domains, cfg_vars, nd_vars, ev_vars, nr_vars>>

\* after the loop: exit 1 without results or when the export fails
Finish ==
    /\ pc = "loop"
    /\ idx > Len(domains)
    /\ pc' \in (IF results = <<>> THEN {"exit1"} ELSE {"exit0", "exit1"})
    /\ UNCHANGED <<main_vars, call_vars, cfg_vars, nd_vars, ev_vars, nr_vars>>

Next == ProcessDomain \/ FetchAttempt \/ Finish

Spec == Init /\ [][Next]_vars

----------------------------------------------------------------------------
(* Specification SpecApi: get_domain_data called directly, on any string   *)

ApiChars == {"a", " ", "/", "?", ":"}

ApiStrings ==
    {s \in StringsUpTo(MaxApiLen) : \A i \in 1..Len(s) : s[i] \in ApiChars}

InitApi ==
    /\ use_mock_data \in BOOLEAN
    /\ environ \in EnvValues
    /\ max_retries \in 0..MaxRetries
    /\ backoff_factor = DefaultBackoff
    /\ domains = <<>>
    /\ idx = 1
    /\ results = <<>>
    /\ processed = <<>>
    /\ pc = "api"
    /\ NoCall
    /\ NoDomain
    /\ NoVisits
    /\ NoPayload

ApiPosition == pc' = IF ret' = Pending THEN "api_fetch" ELSE "api_done"

ApiCall ==
    /\ pc = "api"
    /\ \E s \in ApiStrings : GetDomainData(s)
    /\ ApiPosition
    /\ UNCHANGED <<main_vars, cfg_vars, nd_vars, ev_vars, nr_vars>>

ApiAttempt ==
    /\ pc = "api_fetch"
    /\ \E resp \in HttpOutcomes : FetchStep(resp)
    /\ ApiPosition
    /\ UNCHANGED <<main_vars, cfg_vars, nd_vars, ev_vars, nr_vars>>

NextApi == ApiCall \/ ApiAttempt

SpecApi == InitApi /\ [][NextApi]_vars

----------------------------------------------------------------------------
(* Specification SpecDomain: normalize_domain applied to a raw string and   *)
(* then to its own result.                                                 *)

InitDomain ==
    /\ nd_domain \in StringsUpTo(MaxLen)
    /\ nd_calls = <<>>
    /\ NoVisits
    /\ NoPayload
    /\ NoRun

NormalizeOnce ==
    /\ Len(nd_calls) = 0
    /\ nd_calls' = <<normalize_domain(nd_domain)>>
    /\ UNCHANGED <<nd_domain, ev_vars, nr_vars, cfg_vars, main_vars, pc, call_vars>>

NormalizeAgain ==
    /\ Len(nd_calls) = 1
    /\ nd_calls' = Append(nd_calls, normalize_domain(nd_calls[1]))
    /\ UNCHANGED <<nd_domain, ev_vars, nr_vars, cfg_vars, main_vars, pc, call_vars>>

NextDomain == NormalizeOnce \/ NormalizeAgain

SpecDomain == InitDomain /\ [][NextDomain]_vars

\* C4: normalize_domain is idempotent: applying it to its own result
\* returns that result unchanged, for every input string.
C4_Idempotent ==
    Len(nd_calls) = 2 => nd_calls[2] = nd_calls[1]

----------------------------------------------------------------------------
(* Specification SpecVisits: _build_estimated_visits at every current date *)

Bases == {0, 999, 1200, 250000}

InitVisits ==
    /\ today \in {d \in Dates : d.year >= FirstYear /\ d.day \in {1, 15, DaysInMonth(d.year, d.month)}}
    /\ base \in Bases
    /\ months = <<>>
    /\ visits = <<>>
    /\ NoDomain
    /\ NoPayload
    /\ NoRun

build_estimated_visits ==
    /\ months = <<>>
    /\ months' = BuildMonths(today)
    /\ visits' = BuildVisits(months', base)
    /\ UNCHANGED <<today, base, nd_vars, nr_vars, cfg_vars, main_vars, pc, call_vars>>

NextVisits == build_estimated_visits

SpecVisits == InitVisits /\ [][NextVisits]_vars

\* the calendar month k months before the month of d, as a first-of-month date
RECURSIVE MonthsBefore(_, _)
MonthsBefore(d, k) ==
    IF k = 0 THEN ReplaceDay1(d)
    ELSE LET p == MonthsBefore(d, k - 1)
         IN  IF p.month = 1 THEN [year |-> p.year - 1, month |-> 12, day |-> 1]
             ELSE [p EXCEPT !.month = p.month - 1]

\* C6: the mock path's estimatedMonthlyVisits has exactly 3 keys, the
\* "YYYY-MM-01" strings of the current calendar month and of the two
\* preceding calendar months, and every value is at least 1000.
C6_ThreeRecentMonths ==
    months # <<>> =>
        /\ Cardinality(DOMAIN visits) = 3
        /\ DOMAIN visits = {KeyOf(MonthsBefore(today, k)) : k \in 0..2}
        /\ \A k \in DOMAIN visits : visits[k] >= 1000

----------------------------------------------------------------------------
(* Specification SpecReal: _normalize_real_response applied to JSON        *)
(* objects: a payload with no fields or a payload with every field, with   *)
(* one of the places the normalizer reads replaced by an arbitrary value.  *)

GoodCountry == JMap([country_code |-> JStr("US"), share |-> JNum(50)])

GoodKeyword == JMap([keyword |-> JStr("kw"), visits |-> JNum(1000), cpc |-> JNum(150)])

SomeSources == JMap([search |-> JNum(50), not_a_number |-> JStr("x")])

FullPayload ==
    JMap([overview |-> JMap([title |-> JStr("x"), description |-> JStr("x")]),
          meta |-> JMap([title |-> JStr("x"), description |-> JStr("x"),
                         screenshot_url |-> JStr("x"), is_from_ga |-> JBool(TRUE)]),
          classification |-> JMap([category |-> JStr("x")]),
          ranking |-> JMap([global |-> JMap([rank |-> JNum(500)]),
                            country |-> JMap([name |-> JStr("US"), code |-> JStr("US"),
                                              rank |-> JNum(300)]),
                            category |-> JMap([rank |-> JNum(700)])]),
          traffic |-> JMap([estimated_monthly_visits |-> JMap([m1 |-> JNum(120050)]),
                            sources |-> SomeSources,
                            top_keywords |-> JList(<<GoodKeyword>>)]),
          audience |-> JMap([top_countries |-> JList(<<GoodCountry>>)]),
          engagement |-> JMap([bounce_rate |-> JNum(40), pages_per_visit |-> JNum(300),
                               visits |-> JNum(100000), time_on_site |-> JNum(6000)]),
          competition |-> JMap([competitors |-> JList(<<JStr("x")>>)])])

\* the places of the payload that _normalize_real_response reads
Sites ==
    { <<"overview">>, <<"overview", "title">>, <<"overview", "description">>,
      <<"meta">>, <<"meta", "title">>, <<"meta", "screenshot_url">>, <<"meta", "is_from_ga">>,
      <<"classification">>, <<"classification", "category">>,
      <<"ranking">>, <<"ranking", "global">>, <<"ranking", "global", "rank">>,
      <<"ranking", "country">>, <<"ranking", "country", "rank">>,
      <<"ranking", "category", "rank">>,
      <<"traffic">>, <<"traffic", "estimated_monthly_visits">>,
      <<"traffic", "sources">>, <<"traffic", "top_keywords">>,
      <<"audience">>, <<"audience", "top_countries">>,
      <<"engagement">>, <<"engagement", "bounce_rate">>, <<"engagement", "pages_per_visit">>,
      <<"engagement", "visits">>, <<"engagement", "time_on_site">>,
      <<"competition", "competitors">> }

\* JSON values of every type, with the elements a list or mapping may hold
SiteValues ==
    { JNull, JNum(0), JNum(150), JStr(""), JStr("x"), JStr("5"), JStr("1.5"),
      JBool(FALSE), JBool(TRUE),
      JList(<<>>), JList(<<JNum(100)>>), JList(<<JNull>>),
      JList(<<GoodCountry>>), JList(<<GoodKeyword>>),
      JList(<<JMap([name |-> JStr("kw"), value |-> JNum(100), cpc |-> JStr("x")])>>),
      JList(<<JMap([name |-> JStr("kw"), value |-> JNum(100), cpc |-> JList(<<>>)])>>),
      JList(<<JMap([country_code |-> JNum(100), share |-> JStr("x")])>>),
      JMap(EmptyMap), SomeSources, JMap([rank |-> JList(<<>>)]) }

\* the payload with the value at `path` replaced by v
RECURSIVE SetPath(_, _, _, _)
SetPath(d, path, i, v) ==
    LET key == path[i]
        child == IF key \in DOMAIN d.m /\ IsDict(d.m[key]) THEN d.m[key] ELSE JMap(EmptyMap)
        new == IF i = Len(path) THEN v ELSE SetPath(child, path, i + 1, v)
    IN  JMap([k \in DOMAIN d.m \cup {key} |-> IF k = key THEN new ELSE d.m[k]])

JsonObjects ==
    {EmptyPayload, FullPayload}
    \cup {SetPath(b, p, 1, v) : b \in {EmptyPayload, FullPayload}, p \in Sites, v \in SiteValues}

NotRun == [err |-> "not run"]

DomainArg == <<"a">>

InitReal ==
    /\ raw \in JsonObjects
    /\ normalized = NotRun
    /\ NoDomain
    /\ NoVisits
    /\ NoRun

NormalizeRealResponse ==
    /\ normalized = NotRun
    /\ normalized' = normalize_real_response(DomainArg, raw)
    /\ UNCHANGED <<raw, nd_vars, ev_vars, cfg_vars, main_vars, pc, call_vars>>

NextReal == NormalizeRealResponse

SpecReal == InitReal /\ [][NextReal]_vars

\* C5: remote normalization never fails for a payload that is a JSON
\* object: whatever the type of each field and nested element it reads, it
\* returns a record rather than raising an error.
C5_NeverRaises ==
    normalized # NotRun => normalized.err = ""

----------------------------------------------------------------------------
(* Properties of _fetch_raw_data, get_domain_data and main                 *)

CallDone == ret.kind \in {"return", "raise"}

FetchCalled == fetch_ret.kind # "none"

FetchDone == fetch_ret.kind \in {"return", "raise"}

Status2xx(o) == o.kind = "response" /\ o.status >= 200 /\ o.status < 300

\* a failed attempt in the sense of the retry policy: a status outside
\* [200,300) or a transport-level error
FailedAttempt(o) == o.kind = "error" \/ (o.kind = "response" /\ ~Status2xx(o))

\* a 2xx response whose body parses as JSON
ParsedSuccess(o) == Status2xx(o) /\ o.body.json

RECURSIVE Sum(_)
Sum(s) == IF s = <<>> THEN 0 ELSE Head(s) + Sum(Tail(s))

\* C1: with a credential present and max_retries >= 1 the number of HTTP
\* requests never exceeds max_retries; when every attempt fails (non-2xx
\* status or transport error) exactly max_retries requests are issued and
\* the call ends with a failure, never with a payload.
C1_BoundedAttempts ==
    (FetchCalled /\ max_retries >= 1) =>
        /\ http_requests <= max_retries
        /\ Len(outcomes) = http_requests
        /\ (FetchDone /\ \A i \in 1..Len(outcomes) : FailedAttempt(outcomes[i])) =>
              /\ http_requests = max_retries
              /\ fetch_ret.kind = "raise"
              /\ ret.kind = "raise"

C1_Witness ==
    /\ FetchDone
    /\ max_retries = 3
    /\ http_requests = 3
    /\ \A i \in 1..3 : FailedAttempt(outcomes[i])
    /\ outcomes[1].kind = "error"
    /\ outcomes[2].kind = "response"
    /\ fetch_ret.kind = "raise"

\* C2: after each failed attempt k < max_retries the fetcher sleeps exactly
\* backoff_factor * 2^(k-1) before attempt k+1, never after the final
\* attempt nor after a successful one; a run that fails twice then succeeds
\* with max_retries = 3 returns the payload after sleeping
\* backoff_factor * (2^0 + 2^1) in total.
C2_ExponentialBackoff ==
    FetchCalled =>
        LET slept == {k \in 1..Len(outcomes) :
                         ~ParsedSuccess(outcomes[k]) /\ k < max_retries}
        IN  /\ Len(sleeps) = Cardinality(slept)
            /\ \A k \in 1..Len(sleeps) : k \in slept /\ sleeps[k] = backoff_factor * 2 ^ (k - 1)
            /\ (/\ max_retries = 3
                /\ Len(outcomes) = 3
                /\ ~ParsedSuccess(outcomes[1])
                /\ ~ParsedSuccess(outcomes[2])
                /\ ParsedSuccess(outcomes[3])) =>
                  /\ fetch_ret = Returns(outcomes[3].body.value)
                  /\ Sum(sleeps) = backoff_factor * (2 ^ 0 + 2 ^ 1)

C2_Witness ==
    /\ max_retries = 3
    /\ Len(outcomes) = 3
    /\ FailedAttempt(outcomes[1])
    /\ FailedAttempt(outcomes[2])
    /\ ParsedSuccess(outcomes[3])
    /\ fetch_ret.kind = "return"
    /\ Len(sleeps) = 2

\* C3: in remote mode with a valid domain and the credential variable unset
\* or empty, no HTTP request is attempted, the call falls back to the mock
\* generator and returns a record, and no credential error reaches the
\* caller.
C3_NoKeyFallsBackToMock ==
    (ret.kind # "none" /\ ~use_mock_data /\ clean_domain # <<>>
        /\ (environ = Unset \/ environ = "")) =>
        /\ http_requests = 0
        /\ outcomes = <<>>
        /\ fetch_ret = NotCalled
        /\ mock_profiles = 1
        /\ ret.kind = "return"
        /\ ret.value.domain = clean_domain
        /\ ret.value.isDataFromGA = FALSE

C3_Witness ==
    /\ ~use_mock_data
    /\ environ = ""
    /\ clean_domain # <<>>
    /\ ret.kind = "return"
    /\ mock_profiles = 1

\* the records of the calls that returned, in processing order
RECURSIVE Successes(_)
Successes(log) ==
    IF log = <<>> THEN <<>>
    ELSE IF Head(log).outcome.kind = "return"
         THEN <<Head(log).outcome.value>> \o Successes(Tail(log))
         ELSE Successes(Tail(log))

\* C7: in the multi-domain run every domain is processed exactly once
\* whatever failed before it, and the collected results are exactly one
\* record per domain whose get_domain_data succeeded, in processing order.
C7_IsolatedDomains ==
    /\ Len(processed) <= Len(domains)
    /\ \A i \in 1..Len(processed) : processed[i].domain = domains[i]
    /\ results = Successes(processed)
    /\ pc \in {"exit0", "exit1"} => Len(processed) = Len(domains)

C7_Witness ==
    /\ pc = "exit0"
    /\ Len(domains) = 2
    /\ processed[1].outcome.kind = "raise"
    /\ processed[2].outcome.kind = "return"
    /\ Len(results) = 1

\* C8: get_domain_data raises InvalidDomain for exactly the inputs whose
\* normalized domain is empty (among them the empty and the
\* whitespace-only string), and does so before any mock generation,
\* credential lookup or HTTP request.
C8_InvalidDomainFirst ==
    ret.kind # "none" =>
        /\ (ret = Raises("InvalidDomain")) <=> (normalize_domain(call_domain) = <<>>)
        /\ (\A i \in 1..Len(call_domain) : call_domain[i] = " ") => ret = Raises("InvalidDomain")
        /\ ret = Raises("InvalidDomain") =>
              /\ mock_profiles = 0
              /\ env_reads = 0
              /\ http_requests = 0
              /\ fetch_ret = NotCalled

C8_Witness ==
    /\ call_domain = <<":", "/", "/">>
    /\ ret = Raises("InvalidDomain")
    /\ ~use_mock_data
    /\ environ = "secret"

\* C9 as stated: an attempt succeeds if and only if its status is in
\* [200,300): the first such attempt ends the fetch with the parsed body,
\* and only such an attempt does.
C9_SuccessIffStatus2xx ==
    FetchCalled =>
        /\ \A i \in 1..Len(outcomes) :
              Status2xx(outcomes[i]) => (i = Len(outcomes) /\ fetch_ret.kind = "return")
        /\ fetch_ret.kind = "return" => Status2xx(outcomes[Len(outcomes)])

\* C9 amended: an attempt succeeds if and only if its status is in
\* [200,300) and its body parses as JSON: the first such attempt ends the
\* fetch with the parsed body, with no further request and no further
\* sleep; every other attempt (other status, transport error, 2xx with a
\* body that does not parse) is failed and is followed by the next attempt
\* if any remain.
C9_SuccessIffParsed2xx ==
    FetchCalled =>
        /\ \A i \in 1..Len(outcomes) :
              IF ParsedSuccess(outcomes[i])
              THEN /\ i = Len(outcomes)
                   /\ http_requests = i
                   /\ Len(sleeps) = i - 1
                   /\ fetch_ret = Returns(outcomes[i].body.value)
              ELSE /\ i < Len(outcomes) \/ fetch_ret.kind # "return"
                   /\ (i = Len(outcomes) /\ i < max_retries) => fetch_ret = Pending
        /\ fetch_ret.kind = "return" =>
              Len(outcomes) >= 1 /\ ParsedSuccess(outcomes[Len(outcomes)])

C9_Witness ==
    /\ Len(outcomes) = 2
    /\ Status2xx(outcomes[1])
    /\ ~outcomes[1].body.json
    /\ ParsedSuccess(outcomes[2])
    /\ outcomes[2].status = 299
    /\ fetch_ret.kind = "return"

\* the exception an attempt raised inside the try block, "None" if none
RaisedIn(o) ==
    IF o.kind = "error" THEN o.exc
    ELSE IF Status2xx(o) /\ ~o.body.json THEN "JSONDecodeError"
    ELSE "None"

Latest(S) == CHOOSE i \in S : \A j \in S : j <= i

FetchExhausted ==
    /\ fetch_ret.kind = "raise"
    /\ max_retries >= 1
    /\ Len(outcomes) = max_retries

\* C10 as stated: once all attempts are exhausted the failure carries the
\* most recent transport error of the call if an attempt raised one, and is
\* the generic failure if and only if no attempt raised a transport error.
C10_CarriesLastTransportError ==
    FetchExhausted =>
        LET errs == {i \in 1..Len(outcomes) : outcomes[i].kind = "error"}
        IN  IF errs # {} THEN fetch_ret.exc = outcomes[Latest(errs)].exc
            ELSE fetch_ret.exc = "FetchFailedGeneric"

\* C10 amended: once all attempts are exhausted the failure carries the
\* most recent exception caught in an attempt of the call, be it a transport
\* error or the failure to parse the body of a 2xx response, even if later
\* attempts failed only with non-2xx statuses, and is the generic failure
\* if and only if no attempt raised an exception.
C10_CarriesLastCaughtException ==
    FetchExhausted =>
        LET caught == {i \in 1..Len(outcomes) : RaisedIn(outcomes[i]) # "None"}
        IN  /\ caught # {} => fetch_ret.exc = RaisedIn(outcomes[Latest(caught)])
            /\ caught = {} <=> fetch_ret.exc = "FetchFailedGeneric"
            /\ ret = fetch_ret

C10_Witness ==
    /\ FetchExhausted
    /\ Len(outcomes) = 3
    /\ outcomes[1].kind = "error"
    /\ outcomes[2].kind = "error"
    /\ outcomes[2].exc # outcomes[1].exc
    /\ outcomes[3].kind = "response"
    /\ ~Status2xx(outcomes[3])
    /\ fetch_ret.exc = outcomes[2].exc

====
